---- MODULE Spec2Model ----
(***************************************************************************)
(* Model of src/src/ngl_viewer.js: the view side of the molecule viewer.   *)
(* Strings are sequences of one-character strings, so that split,          *)
(* startsWith, substring, trim, sort and template formatting are computed  *)
(* character by character as the JavaScript computes them.                 *)
(***************************************************************************)
EXTENDS Integers, Sequences, FiniteSets, TLC

\* ------------------------------------------------------------------ bounds

\* number of loadPDBFromText calls explored
MaxLoads == 2

\* number of cleanup calls that throw
MaxThrows == 1

\* number of lines of a structure text handed to the parser alone
MaxLines == 3

\* ------------------------------------------------------------ JS values

\* null, for the two references that hold an object or null; objects are
\* named by positive integers
Null == 0

Spaces(n) == [i \in 1..n |-> " "]

Digits == <<"0", "1", "2", "3", "4", "5", "6", "7", "8", "9">>

\* UTF-16 code units of the characters that occur in the modelled texts
CharCode(c) ==
    CASE c = "\n" -> 10
      [] c = " " -> 32
      [] c = "*" -> 42
      [] c = "A" -> 65
      [] c = "E" -> 69
      [] c = "G" -> 71
      [] c = "H" -> 72
      [] c = "K" -> 75
      [] c = "L" -> 76
      [] c = "M" -> 77
      [] c = "O" -> 79
      [] c = "R" -> 82
      [] c = "T" -> 84
      [] c = "Y" -> 89

\* a < b in the order Array.prototype.sort() uses without a comparator:
\* by UTF-16 code units, a proper prefix first
RECURSIVE StrLess(_, _)
StrLess(a, b) ==
    IF b = <<>> THEN FALSE
    ELSE IF a = <<>> THEN TRUE
    ELSE IF Head(a) # Head(b) THEN CharCode(Head(a)) < CharCode(Head(b))
    ELSE StrLess(Tail(a), Tail(b))

\* String.prototype.startsWith
StartsWith(s, prefix) ==
    /\ Len(s) >= Len(prefix)
    /\ SubSeq(s, 1, Len(prefix)) = prefix

\* String.prototype.substring(start, end), 0-based, end exclusive, both
\* clamped to the length of the string
Min(a, b) == IF a < b THEN a ELSE b
Substring(s, start, end) == SubSeq(s, Min(start, Len(s)) + 1, Min(end, Len(s)))

WhiteSpace == {" ", "\n", "\t", "\r"}

\* String.prototype.trim
RECURSIVE TrimStart(_)
TrimStart(s) ==
    IF s # <<>> /\ Head(s) \in WhiteSpace THEN TrimStart(Tail(s)) ELSE s

RECURSIVE TrimEnd(_)
TrimEnd(s) ==
    IF s # <<>> /\ s[Len(s)] \in WhiteSpace
    THEN TrimEnd(SubSeq(s, 1, Len(s) - 1)) ELSE s

Trim(s) == TrimEnd(TrimStart(s))

\* String.prototype.split(sep) for a one-character separator
RECURSIVE Split(_, _)
Split(s, sep) ==
    IF \E i \in 1..Len(s) : s[i] = sep
    THEN LET i == CHOOSE k \in 1..Len(s) :
                     s[k] = sep /\ \A j \in 1..(k - 1) : s[j] # sep
         IN  <<SubSeq(s, 1, i - 1)>> \o Split(SubSeq(s, i + 1, Len(s)), sep)
    ELSE <<s>>

\* Array.prototype.join
RECURSIVE Join(_, _)
Join(parts, sep) ==
    IF parts = <<>> THEN <<>>
    ELSE IF Len(parts) = 1 THEN parts[1]
    ELSE parts[1] \o sep \o Join(Tail(parts), sep)

\* Number to string, as a template literal formats an integer
RECURSIVE ToDecimal(_)
ToDecimal(n) ==
    IF n < 0 THEN <<"-">> \o ToDecimal(0 - n)
    ELSE IF n < 10 THEN <<Digits[n + 1]>>
    ELSE ToDecimal(n \div 10) \o <<Digits[(n % 10) + 1]>>

\* ------------------------------------------------------- structure parser

\* Array.prototype.sort() of an array of distinct strings
RECURSIVE SortStrings(_)
SortStrings(set) ==
    IF set = {} THEN <<>>
    ELSE LET m == CHOOSE x \in set : \A y \in set \ {x} : StrLess(x, y)
         IN  <<m>> \o SortStrings(set \ {m})

Range(seq) == {seq[i] : i \in 1..Len(seq)}

ATOM == <<"A", "T", "O", "M">>
HETATM == <<"H", "E", "T", "A", "T", "M">>

\* the trimmed residue-name field of one line, <<>> when the line has none
LineResnameUntrimmed(line) ==
    IF StartsWith(line, ATOM) \/ StartsWith(line, HETATM)
    THEN Substring(line, 17, 21)
    ELSE <<>>

LineResname(line) ==
    IF StartsWith(line, ATOM) \/ StartsWith(line, HETATM)
    THEN Trim(Substring(line, 17, 21))
    ELSE <<>>

extractUniqueResnames(pdbText) ==
    LET lines == Split(pdbText, "\n")
        found == SelectSeq([i \in 1..Len(lines) |-> LineResname(lines[i])],
                           LAMBDA r : r # <<>>)
    IN  SortStrings(Range(found))


\* --------------------------------------------------------- color assigner

White == <<"w", "h", "i", "t", "e">>
Star == <<"*">>

\* the text of (index * 360) / count in a template literal: the integer
\* when the division is exact, otherwise the exact quotient written n/d
\* (standing for the decimal expansion JavaScript prints)
HueText(index, count) ==
    IF (index * 360) % count = 0
    THEN ToDecimal((index * 360) \div count)
    ELSE ToDecimal(index * 360) \o <<"/">> \o ToDecimal(count)

Hsl(index, count) ==
    <<"h", "s", "l", "(">> \o HueText(index, count)
        \o <<",", " ">> \o ToDecimal(70) \o <<"%", ",", " ">>
        \o ToDecimal(50) \o <<"%", ")">>

\* obj[key] = value on a JavaScript object (a function from keys to values)
SetKey(obj, key, value) ==
    [k \in (DOMAIN obj) \cup {key} |-> IF k = key THEN value ELSE obj[k]]

RECURSIVE AssignColors(_, _, _)
AssignColors(colorScheme, resnames, n) ==
    IF n = 0 THEN colorScheme
    ELSE SetKey(AssignColors(colorScheme, resnames, n - 1),
                resnames[n], Hsl(n - 1, Len(resnames)))

generateColorScheme(resnames) ==
    SetKey(AssignColors(<<>>, resnames, Len(resnames)), Star, White)


\* ------------------------------------------------------------------ inputs

AtomLine(resname) == ATOM \o Spaces(13) \o resname
HetatmLine(resname) == HETATM \o Spaces(11) \o resname
RemarkLine(resname) == <<"R", "E", "M", "A", "R", "K">> \o Spaces(11) \o resname

ALA == <<"A", "L", "A">>
GLY == <<"G", "L", "Y">>
HOH == <<"H", "O", "H">>
NL == <<"\n">>

\* two ATOM records of ALA and one HETATM record of HOH
TextAlaHoh ==
    Join(<<AtomLine(ALA \o Spaces(1)), HetatmLine(HOH), AtomLine(ALA)>>, NL)

\* a REMARK line, a short ATOM line, one ATOM record of GLY
TextGly ==
    Join(<<RemarkLine(HOH), ATOM, AtomLine(Spaces(1) \o GLY), <<>>>>, NL)

\* structure texts handed to loadPDBFromText
PdbTexts == {TextAlaHoh, TextGly}

REMARK == <<"R", "E", "M", "A", "R", "K">>

\* the lines a text given to the parser alone is made of: a record name,
\* and either nothing after it (a short line) or, in columns 18 to 21, the
\* residue name after lead spaces and padded with spaces, then a chain id
LineKinds ==
    { [record |-> ATOM, short |-> FALSE, lead |-> 0, resname |-> ALA],
      [record |-> HETATM, short |-> FALSE, lead |-> 0, resname |-> HOH],
      [record |-> ATOM, short |-> FALSE, lead |-> 1, resname |-> GLY],
      [record |-> REMARK, short |-> FALSE, lead |-> 0, resname |-> HOH],
      [record |-> ATOM, short |-> TRUE, lead |-> 0, resname |-> <<>>],
      [record |-> ATOM, short |-> FALSE, lead |-> 0, resname |-> Star],
      [record |-> ATOM, short |-> FALSE, lead |-> 0, resname |-> <<>>] }

LineOf(d) ==
    IF d.short THEN d.record
    ELSE d.record \o Spaces(17 - Len(d.record)) \o Spaces(d.lead)
             \o d.resname \o Spaces(4 - d.lead - Len(d.resname)) \o <<"A">>

\* the texts of at most MaxLines such lines
Structures == UNION {[1..n -> LineKinds] : n \in 0..MaxLines}

TextOf(lines) == Join([i \in 1..Len(lines) |-> LineOf(lines[i])], NL)

\* the serials lists handed to highlightAtoms: the empty list, a list out
\* of order with a two-digit serial, and the list [1, 5, 10]
SerialLists == {<<>>, <<11, 1>>, <<1, 5, 10>>}

\* the atoms a click can resolve to (NGL.AtomProxy fields the handler reads)
Atoms ==
    { [chainname |-> "A", resno |-> 7, resname |-> ALA,
       atomname |-> "CA", serial |-> 1],
      [chainname |-> "B", resno |-> 12, resname |-> HOH,
       atomname |-> "O", serial |-> 11] }

\* what the clicked signal hands to its listeners: nothing (undefined), a
\* pick with no atom (the background), or a pick of an atom
NoAtom == [chainname |-> "", resno |-> 0, resname |-> <<>>,
           atomname |-> "", serial |-> 0]
PickData ==
    {[defined |-> FALSE, atom |-> NoAtom], [defined |-> TRUE, atom |-> NoAtom]}
        \cup {[defined |-> TRUE, atom |-> a] : a \in Atoms}

\* ------------------------------------------------------------------- state

VARIABLES
    bridge,                   \* window.bridge is attached
    lastPdbText,              \* window._last_pdb_text: <<>> or <<text>>
    currentComponent,         \* Null or the current component
    selectionRepresentation,  \* Null or the overlay representation
    compList,                 \* the components in the stage
    reprs,                    \* the representations of the components
    pending,                  \* stage.loadFile promises not yet settled
    loadCount,                \* loadFile calls made so far
    view,                     \* the component the camera was last fitted to
    bridgeOut,                \* messages the last handler gave to bridge.fromJs
    consoleOut,               \* what the last handler wrote to the console
    last,                     \* the handler that ran last, with its input
                              \*   (again: it repeats the call before it)
    loadLog,                  \* per loadFile call: its outcome so far, the
                              \*   calls in flight when it was made, and
                              \*   its residue list
    highlighted,              \* highlightAtoms was called with serials
    throws,                   \* cleanup calls that have thrown so far
    unreplayed,               \* the last highlightAtoms call had serials and
                              \*   found a load in flight and no component
    structure,                \* the lines of a text given to the parser
    parsed                    \* <<>> or <<what the parser and the color
                              \*   assigner return for it>>

vars == <<bridge, lastPdbText, currentComponent, selectionRepresentation,
          compList, reprs, pending, loadCount, view, bridgeOut, consoleOut,
          last, loadLog, highlighted, throws, unreplayed, structure, parsed>>

\* the variables of the parser and the color assigner run alone
pureVars == <<structure, parsed>>

BallStick == "ball+stick"
HighlightColor == <<"#", "0", "0", "f", "f", "0", "0">>

\* ------------------------------------------------------------ the renderer

\* object identities not referred to by anything; a new object takes the
\* least one
UsedIds(rs, sel) == {r.id : r \in rs} \cup {sel}
FreshId(rs, sel) ==
    CHOOSE n \in 1..(Cardinality(UsedIds(rs, sel)) + 1) :
        /\ n \notin UsedIds(rs, sel)
        /\ \A m \in 1..(n - 1) : m \in UsedIds(rs, sel)

\* component.addRepresentation(type, params): the representation list
\* with the new representation in it
AddRepresentation(rs, sel, comp, type, params) ==
    rs \cup {[id |-> FreshId(rs, sel), comp |-> comp, type |-> type,
              sele |-> params.sele, color |-> params.color,
              radiusScale |-> params.radiusScale]}

\* component.removeAllRepresentations()
RemoveAllRepresentations(rs, comp) == {r \in rs : r.comp # comp}

\* component.removeRepresentation(repr): a representation that is not in
\* the component's list is left alone
RemoveRepresentation(rs, comp, repr) ==
    {r \in rs : ~(r.comp = comp /\ r.id = repr)}


\* the residue name a selection of the form "[NAME]" selects (the
\* renderer's selection language: brackets enclose a residue name)
SelectedResname(sele) ==
    IF Len(sele) >= 2 /\ sele[1] = "[" /\ sele[Len(sele)] = "]"
    THEN SubSeq(sele, 2, Len(sele) - 1)
    ELSE <<>>

\* FromDecimal: the integer a decimal numeral denotes
DigitValue(c) == CHOOSE d \in 0..9 : Digits[d + 1] = c

RECURSIVE FromDecimal(_)
FromDecimal(s) ==
    IF s = <<>> THEN 0
    ELSE IF Head(s) = "-" THEN 0 - FromDecimal(Tail(s))
    ELSE FromDecimal(SubSeq(s, 1, Len(s) - 1)) * 10 + DigitValue(s[Len(s)])

\* the atom indices a selection of the form "@i or @j or ..." selects
\* (the renderer's selection language: @ is followed by an atom index)
SelectedAtomIndices(sele) ==
    LET words == Split(sele, " ")
    IN  {FromDecimal(Tail(words[i])) :
             i \in {k \in 1..Len(words) :
                        words[k] # <<>> /\ Head(words[k]) = "@"}}

\* ------------------------------------------------------------ host bridge

\* JSON.stringify(obj): the text handed to the bridge
JSONstringify(obj) == [json |-> obj]

NoOutput == [bridge |-> <<>>, console |-> <<>>]

\* sendLog without the console branch: a log event is dropped when no
\* bridge is attached
sendLogBridgeOnly(out, message, data) ==
    LET logInfo == [type |-> "log", message |-> message, data |-> data]
    IN  IF bridge
        THEN [out EXCEPT !.bridge = Append(@, JSONstringify(logInfo))]
        ELSE out

\* sendLog(message, data), given what the handler has put out so far
sendLog(out, message, data) ==
    LET logInfo == [type |-> "log", message |-> message, data |-> data]
    IN  IF bridge
        THEN [out EXCEPT !.bridge = Append(@, JSONstringify(logInfo))]
        ELSE [out EXCEPT !.console =
                  Append(@, [stream |-> "log", prefix |-> "[JS Log]",
                             message |-> message, data |-> data])]

\* -------------------------------------------------------- scene controller

\* a completion that also puts an overlay on the new component
RECURSIVE AddResidueRepresentationsAndOverlay(_, _, _, _, _)
AddResidueRepresentationsAndOverlay(rs, sel, o, load, n) ==
    IF n = 0
    THEN AddRepresentation(rs, sel, o, BallStick,
                           [sele |-> <<"@", "0">>, color |-> HighlightColor,
                            radiusScale |-> "1.5"])
    ELSE LET resname == load.uniqueResnames[n]
         IN  AddRepresentation(
                 AddResidueRepresentationsAndOverlay(rs, sel, o, load, n - 1),
                 sel, o, BallStick,
                 [sele |-> <<"[">> \o resname \o <<"]">>,
                  color |-> load.colorScheme[resname],
                  radiusScale |-> "default"])

RECURSIVE AddResidueRepresentations(_, _, _, _, _)
AddResidueRepresentations(rs, sel, o, load, n) ==
    IF n = 0 THEN rs
    ELSE LET resname == load.uniqueResnames[n]
         IN  AddRepresentation(
                 AddResidueRepresentations(rs, sel, o, load, n - 1),
                 sel, o, BallStick,
                 [sele |-> <<"[">> \o resname \o <<"]">>,
                  color |-> load.colorScheme[resname],
                  radiusScale |-> "default"])

\* the calls of the cleanup in loadPDBFromText that can throw
LoadThrows == {"none", "removeAllRepresentations", "remove"}

\* the cleanup whose assignment of null is skipped when a call throws
RemovePreviousComponentAbandoned(thrown) ==
    IF currentComponent = Null
    THEN [reprs |-> reprs, compList |-> compList, currentComponent |-> Null]
    ELSE [reprs |-> IF thrown = "removeAllRepresentations"
                    THEN reprs
                    ELSE RemoveAllRepresentations(reprs, currentComponent),
          compList |-> IF thrown = "none"
                       THEN compList \ {currentComponent}
                       ELSE compList,
          currentComponent |-> IF thrown = "none"
                               THEN Null ELSE currentComponent]

\* the cleanup that leaves the previous component in the stage
KeepPreviousComponent(thrown) ==
    [reprs |-> reprs, compList |-> compList, currentComponent |-> Null]

\* the cleanup at the top of loadPDBFromText: what it leaves of the
\* representations, the stage and the current component when the named
\* call throws (a call that throws has done nothing)
RemovePreviousComponent(thrown) ==
    IF currentComponent = Null
    THEN [reprs |-> reprs, compList |-> compList, currentComponent |-> Null]
    ELSE [reprs |-> IF thrown = "removeAllRepresentations"
                    THEN reprs
                    ELSE RemoveAllRepresentations(reprs, currentComponent),
          compList |-> IF thrown = "none"
                       THEN compList \ {currentComponent}
                       ELSE compList,
          currentComponent |-> Null]

\* loadPDBFromText(pdbText), up to the call of stage.loadFile, with the
\* call of its cleanup that throws
loadPDBFromTextThrowing(pdbText, thrown) ==
    LET uniqueResnames == extractUniqueResnames(pdbText)
        colorScheme == generateColorScheme(uniqueResnames)
        out == sendLog(NoOutput, "Detected residue names",
                       [resnames |-> uniqueResnames,
                        colorScheme |-> colorScheme])
        cleaned == RemovePreviousComponent(thrown)
    IN  /\ loadCount < MaxLoads
        \* a call is made, and can throw, only if there is a component
        /\ thrown # "none" => currentComponent # Null /\ throws < MaxThrows
        /\ throws' = IF thrown = "none" THEN throws ELSE throws + 1
        /\ reprs' = cleaned.reprs
        /\ compList' = cleaned.compList
        /\ currentComponent' = cleaned.currentComponent
        /\ loadCount' = loadCount + 1
        /\ pending' = pending \cup
               {[load |-> loadCount + 1, uniqueResnames |-> uniqueResnames,
                 colorScheme |-> colorScheme]}
        /\ bridgeOut' = out.bridge
        /\ consoleOut' = out.console
        /\ last' = [op |-> "load", serials |-> <<>>, pick |-> NoAtom,
                    load |-> loadCount + 1, again |-> FALSE,
                    thrown |-> thrown]
        /\ loadLog' = Append(loadLog,
               [status |-> "pending", inFlight |-> {p.load : p \in pending},
                resnames |-> uniqueResnames])
        /\ UNCHANGED <<bridge, selectionRepresentation, view, highlighted,
                       unreplayed, pureVars>>

\* loadPDBFromText(pdbText) when nothing throws
loadPDBFromText(pdbText) == loadPDBFromTextThrowing(pdbText, "none")

\* the host calls window.loadPDBFromText through runJavaScript
CallLoad(pdbText) ==
    /\ loadPDBFromText(pdbText)
    /\ UNCHANGED lastPdbText

\* the bridge's sendMessage signal, connected once the bridge is ready
SendMessage(pdbText) ==
    /\ bridge
    /\ lastPdbText' = <<pdbText>>
    /\ loadPDBFromText(pdbText)

\* the same two, with a call of the cleanup throwing
CallLoadThrowing(pdbText, thrown) ==
    /\ thrown # "none"
    /\ loadPDBFromTextThrowing(pdbText, thrown)
    /\ UNCHANGED lastPdbText

SendMessageThrowing(pdbText, thrown) ==
    /\ thrown # "none"
    /\ bridge
    /\ lastPdbText' = <<pdbText>>
    /\ loadPDBFromTextThrowing(pdbText, thrown)

\* stage.loadFile resolves with the component o it added to the stage
LoadResolved(load) ==
    LET o == load.load
    IN  /\ load \in pending
        /\ pending' = pending \ {load}
        /\ compList' = compList \cup {o}
        /\ currentComponent' = o
        /\ reprs' = AddResidueRepresentations(
                        reprs, selectionRepresentation, o, load,
                        Len(load.uniqueResnames))
        /\ view' = o
        /\ bridgeOut' = <<>>
        /\ consoleOut' = <<>>
        /\ last' = [op |-> "resolved", serials |-> <<>>, pick |-> NoAtom,
                    load |-> o, again |-> FALSE, thrown |-> "none"]
        /\ loadLog' = [loadLog EXCEPT ![o].status = "resolved"]
        /\ UNCHANGED <<bridge, lastPdbText, selectionRepresentation,
                       loadCount, highlighted, throws, unreplayed, pureVars>>

\* a rejection handler that also drops the current component
LoadRejectedDropsCurrent(load) ==
    /\ load \in pending
    /\ pending' = pending \ {load}
    /\ currentComponent' = Null
    /\ bridgeOut' = <<>>
    /\ consoleOut' = <<[stream |-> "error", prefix |-> "NGL load error:",
                        message |-> "", data |-> [load |-> load.load]]>>
    /\ last' = [op |-> "rejected", serials |-> <<>>, pick |-> NoAtom,
                load |-> load.load, again |-> FALSE, thrown |-> "none"]
    /\ loadLog' = [loadLog EXCEPT ![load.load].status = "rejected"]
    /\ UNCHANGED <<bridge, lastPdbText, selectionRepresentation, compList,
                   reprs, loadCount, view, highlighted, throws, unreplayed,
                   pureVars>>

\* stage.loadFile rejects
LoadRejected(load) ==
    /\ load \in pending
    /\ pending' = pending \ {load}
    /\ bridgeOut' = <<>>
    /\ consoleOut' = <<[stream |-> "error", prefix |-> "NGL load error:",
                        message |-> "", data |-> [load |-> load.load]]>>
    /\ last' = [op |-> "rejected", serials |-> <<>>, pick |-> NoAtom,
                load |-> load.load, again |-> FALSE, thrown |-> "none"]
    /\ loadLog' = [loadLog EXCEPT ![load.load].status = "rejected"]
    /\ UNCHANGED <<bridge, lastPdbText, currentComponent,
                   selectionRepresentation, compList, reprs, loadCount, view,
                   highlighted, throws, unreplayed, pureVars>>


\* ---------------------------------------------------- selection controller

\* data.serials.map(s => `@${s - 1}`)
RECURSIVE AtomIndexTerms(_)
AtomIndexTerms(serials) ==
    IF serials = <<>> THEN <<>>
    ELSE <<<<"@">> \o ToDecimal(Head(serials) - 1)>>
             \o AtomIndexTerms(Tail(serials))

\* the selection without the conversion from serial to atom index
RECURSIVE SerialTerms(_)
SerialTerms(serials) ==
    IF serials = <<>> THEN <<>>
    ELSE <<<<"@">> \o ToDecimal(Head(serials))>> \o SerialTerms(Tail(serials))

SelectionStringOfSerials(serials) ==
    Join(SerialTerms(serials), <<" ", "o", "r", " ">>)

SelectionString(serials) ==
    Join(AtomIndexTerms(serials), <<" ", "o", "r", " ">>)

\* the overlay of an earlier call is left in place
\* a cleanup that removes every representation of the current component
RemoveEveryRepresentation == RemoveAllRepresentations(reprs, currentComponent)

KeepPreviousOverlay == reprs

\* the overlay of an earlier call is removed from the current component,
\* if there is one
RemovePreviousOverlay ==
    IF selectionRepresentation # Null /\ currentComponent # Null
    THEN RemoveRepresentation(reprs, currentComponent,
                              selectionRepresentation)
    ELSE reprs

\* one reason for both cases
ClearingReasonAlwaysEmpty(serials) == "empty serials"

ClearingReason(serials) ==
    IF Len(serials) = 0 THEN "empty serials" ELSE "no component"

\* the calls of the cleanup in highlightAtoms that can throw
HighlightThrows == {"none", "removeRepresentation"}

\* highlightAtoms(data), with the call of its cleanup that throws (a call
\* that throws has done nothing)
highlightAtomsThrowing(data, thrown) ==
    LET out1 == sendLog(NoOutput, "highlightAtoms called",
                        [serials |-> data.serials])
        cleaned == IF thrown = "none" THEN RemovePreviousOverlay ELSE reprs
        selectionString == SelectionString(data.serials)
    IN  IF Len(data.serials) > 0 /\ currentComponent # Null
        THEN LET out2 == sendLog(out1, "Creating selection representation",
                                 [selectionString |-> selectionString])
             IN  /\ selectionRepresentation' = FreshId(cleaned, Null)
                 /\ reprs' = AddRepresentation(
                                 cleaned, Null, currentComponent, BallStick,
                                 [sele |-> selectionString,
                                  color |-> HighlightColor,
                                  radiusScale |-> "1.5"])
                 /\ bridgeOut' = out2.bridge
                 /\ consoleOut' = out2.console
        ELSE LET out2 == sendLog(out1, "Clearing selection",
                                 [reason |-> ClearingReason(data.serials)])
             IN  /\ selectionRepresentation' = Null
                 /\ reprs' = cleaned
                 /\ bridgeOut' = out2.bridge
                 /\ consoleOut' = out2.console

\* highlightAtoms(data) when nothing throws
highlightAtoms(data) == highlightAtomsThrowing(data, "none")

\* what a call of window.highlightAtoms leaves besides the scene
HighlightFrame(data, thrown) ==
    /\ last' = [op |-> "highlight", serials |-> data.serials,
                pick |-> NoAtom, load |-> 0,
                again |-> (last.op = "highlight"
                            /\ last.serials = data.serials),
                thrown |-> thrown]
    /\ highlighted' = (highlighted \/ Len(data.serials) > 0)
    /\ throws' = IF thrown = "none" THEN throws ELSE throws + 1
    /\ unreplayed' = (/\ Len(data.serials) > 0
                      /\ currentComponent = Null
                      /\ pending # {})
    /\ UNCHANGED <<bridge, lastPdbText, currentComponent, compList, pending,
                   loadCount, view, loadLog, pureVars>>

\* the host calls window.highlightAtoms through runJavaScript
Highlight(data) ==
    /\ highlightAtoms(data)
    /\ HighlightFrame(data, "none")

\* the same, with removeRepresentation throwing: it is called, and can
\* throw, only if there are an overlay reference and a component
HighlightThrowing(data, thrown) ==
    /\ thrown # "none"
    /\ throws < MaxThrows
    /\ selectionRepresentation # Null
    /\ currentComponent # Null
    /\ highlightAtomsThrowing(data, thrown)
    /\ HighlightFrame(data, thrown)

\* ------------------------------------------------------------- pick relay

\* the listener with the serial translated to an atom index
clickedAtomIndex(pickData) ==
    LET atom == pickData.atom
        info == [type |-> "pick", chain |-> atom.chainname,
                 resno |-> atom.resno, resname |-> atom.resname,
                 atomname |-> atom.atomname, serial |-> atom.serial - 1]
    IN  IF ~pickData.defined \/ atom = NoAtom
        THEN bridgeOut' = <<>>
        ELSE IF bridge
             THEN bridgeOut' = <<JSONstringify(info)>>
             ELSE bridgeOut' = <<>>

\* the listener added to stage.signals.clicked
clicked(pickData) ==
    LET atom == pickData.atom
        info == [type |-> "pick", chain |-> atom.chainname,
                 resno |-> atom.resno, resname |-> atom.resname,
                 atomname |-> atom.atomname, serial |-> atom.serial]
    IN  IF ~pickData.defined \/ atom = NoAtom
        THEN bridgeOut' = <<>>
        ELSE IF bridge
             THEN bridgeOut' = <<JSONstringify(info)>>
             ELSE bridgeOut' = <<>>

Click(pickData) ==
    \* an atom is picked only in a structure that is in the stage
    /\ pickData.atom # NoAtom => compList # {}
    /\ clicked(pickData)
    /\ consoleOut' = <<>>
    /\ last' = [op |-> "click", serials |-> <<>>, pick |-> pickData.atom,
                load |-> 0, again |-> FALSE, thrown |-> "none"]
    /\ UNCHANGED <<bridge, lastPdbText, currentComponent,
                   selectionRepresentation, compList, reprs, pending,
                   loadCount, view, loadLog, highlighted, throws, unreplayed,
                   pureVars>>

\* the QWebChannel callback: the bridge is ready
BridgeReady ==
    /\ ~bridge
    /\ bridge' = TRUE
    /\ bridgeOut' = <<>>
    /\ consoleOut' = <<>>
    /\ last' = [op |-> "bridge", serials |-> <<>>, pick |-> NoAtom,
                load |-> 0, again |-> FALSE, thrown |-> "none"]
    /\ UNCHANGED <<lastPdbText, currentComponent, selectionRepresentation,
                   compList, reprs, pending, loadCount, view, loadLog,
                   highlighted, throws, unreplayed, pureVars>>

\* ----------------------------------------------------------- specification

\* the page after the script has run
InitViewer ==
    /\ bridge = FALSE
    /\ lastPdbText = <<>>
    /\ currentComponent = Null
    /\ selectionRepresentation = Null
    /\ compList = {}
    /\ reprs = {}
    /\ pending = {}
    /\ loadCount = 0
    /\ view = Null
    /\ bridgeOut = <<>>
    /\ consoleOut = <<>>
    /\ last = [op |-> "init", serials |-> <<>>, pick |-> NoAtom, load |-> 0,
               again |-> FALSE, thrown |-> "none"]
    /\ loadLog = <<>>
    /\ highlighted = FALSE
    /\ throws = 0
    /\ unreplayed = FALSE

Init ==
    /\ InitViewer
    /\ structure = <<>>
    /\ parsed = <<>>

\* the parser and the color assigner run alone on a text, as
\* loadPDBFromText runs them
InitParser ==
    /\ InitViewer
    /\ structure \in Structures
    /\ parsed = <<>>

Parse ==
    /\ parsed = <<>>
    /\ LET uniqueResnames == extractUniqueResnames(TextOf(structure))
           colorScheme == generateColorScheme(uniqueResnames)
       IN  parsed' = <<[resnames |-> uniqueResnames,
                        colorScheme |-> colorScheme]>>
    /\ UNCHANGED <<bridge, lastPdbText, currentComponent,
                   selectionRepresentation, compList, reprs, pending,
                   loadCount, view, bridgeOut, consoleOut, last, loadLog,
                   highlighted, throws, unreplayed, structure>>

SpecParser == InitParser /\ [][Parse]_vars

Next ==
    \/ \E pdbText \in PdbTexts : CallLoad(pdbText)
    \/ \E pdbText \in PdbTexts : SendMessage(pdbText)
    \/ \E load \in pending : LoadResolved(load)
    \/ \E load \in pending : LoadRejected(load)
    \/ \E serials \in SerialLists : Highlight([serials |-> serials])
    \/ \E pickData \in PickData : Click(pickData)
    \/ BridgeReady

Spec == Init /\ [][Next]_vars

\* the host issues a load only when no earlier load is in flight
NextSequential ==
    \/ \E pdbText \in PdbTexts : pending = {} /\ CallLoad(pdbText)
    \/ \E pdbText \in PdbTexts : pending = {} /\ SendMessage(pdbText)
    \/ \E load \in pending : LoadResolved(load)
    \/ \E load \in pending : LoadRejected(load)
    \/ \E serials \in SerialLists : Highlight([serials |-> serials])
    \/ \E pickData \in PickData : Click(pickData)
    \/ BridgeReady

SpecSequential == Init /\ [][NextSequential]_vars

\* the same host, and the renderer's removal calls may throw
NextThrowing ==
    \/ NextSequential
    \/ \E pdbText \in PdbTexts, thrown \in LoadThrows :
           pending = {} /\ CallLoadThrowing(pdbText, thrown)
    \/ \E pdbText \in PdbTexts, thrown \in LoadThrows :
           pending = {} /\ SendMessageThrowing(pdbText, thrown)
    \/ \E serials \in SerialLists, thrown \in HighlightThrows :
           HighlightThrowing([serials |-> serials], thrown)

SpecThrowing == Init /\ [][NextThrowing]_vars


\* ------------------------------------------------------------- properties

\* the highlight overlays in the rendered scene, over every component
Overlays == {r \in reprs : r.color = HighlightColor}

\* the per-residue representations in the rendered scene
BaseReprs == reprs \ Overlays

\* the scene as it is rendered: representations without their identities
Rendered(rs) ==
    {[comp |-> r.comp, type |-> r.type, sele |-> r.sele, color |-> r.color,
      radiusScale |-> r.radiusScale] : r \in rs}

\* load i was still in flight when load j was issued, j is the newest load
\* and both have resolved
RacedAndResolved(i, j) ==
    /\ j = loadCount
    /\ i \in loadLog[j].inFlight
    /\ loadLog[i].status = "resolved"
    /\ loadLog[j].status = "resolved"

\* C1: when a load is issued while an earlier one is in flight and both
\* have resolved, the stage holds only the later load's component and
\* representations, and that component is the current one.
C1_OnlySecondLoadRemains ==
    \A i, j \in 1..Len(loadLog) :
        RacedAndResolved(i, j) =>
            /\ compList = {j}
            /\ currentComponent = j
            /\ \A r \in reprs : r.comp = j

\* C2: at most one component is in the stage in every reachable state.
C2_AtMostOneComponent == Cardinality(compList) <= 1

\* C3: at most one highlight overlay is in the rendered scene, counted
\* over all components in the stage.
C3_AtMostOneOverlay == Cardinality(Overlays) <= 1

\* C4: highlightAtoms with an empty list, after an earlier call with a
\* non-empty list, leaves no overlay in the rendered scene.
C4_EmptyHighlightClearsScene ==
    (last.op = "highlight" /\ last.serials = <<>> /\ highlighted)
        => Overlays = {}


\* the overlays among rs that are on component c
OverlaysOn(rs, c) == {r \in rs : r.color = HighlightColor /\ r.comp = c}

\* the overlays on the current component
CurrentOverlays == OverlaysOn(reprs, currentComponent)

\* the atom indices that the serials of a highlight call stand for
IndicesOf(serials) == {serials[i] - 1 : i \in 1..Len(serials)}

\* among rs, component c carries exactly one overlay, the one sel refers
\* to, and it selects the atoms of the serials
OneOverlayFor(rs, c, sel, serials) ==
    /\ Cardinality(OverlaysOn(rs, c)) = 1
    /\ \A r \in OverlaysOn(rs, c) :
           /\ r.id = sel
           /\ SelectedAtomIndices(r.sele) = IndicesOf(serials)

\* the last handler was a highlightAtoms call that repeated the call
\* before it, with a component loaded
RepeatedHighlight ==
    last.op = "highlight" /\ last.again /\ currentComponent # Null

\* this step is a highlightAtoms call that repeats the call before it,
\* with a component loaded
RepeatsHighlight ==
    last'.op = "highlight" /\ last'.again /\ currentComponent' # Null

C6_OverlaySelectsSerialMinusOne ==
    (last.op = "highlight" /\ last.serials # <<>> /\ currentComponent # Null)
        => \E r \in Overlays :
               /\ r.id = selectionRepresentation
               /\ r.comp = currentComponent
               /\ SelectedAtomIndices(r.sele) = IndicesOf(last.serials)

C6_Witness ==
    /\ last.op = "highlight"
    /\ last.serials = <<1, 5, 10>>
    /\ currentComponent # Null
    /\ \E r \in Overlays : SelectedAtomIndices(r.sele) = {0, 4, 9}


\* the log events a handler emitted, on the bridge (b) and on the console
\* (c), as message and data
LogEventsOf(b, c) ==
    [i \in 1..Len(b) |-> [message |-> b[i].json.message,
                          data |-> b[i].json.data]]
      \o [i \in 1..Len(c) |-> [message |-> c[i].message, data |-> c[i].data]]

LogEvents == LogEventsOf(bridgeOut, consoleOut)

\* the last handler was highlightAtoms with serials and nothing is loaded
NoComponentHighlight ==
    last.op = "highlight" /\ last.serials # <<>> /\ currentComponent = Null

\* this step is highlightAtoms with serials while nothing is loaded
HighlightsNoComponent ==
    last'.op = "highlight" /\ last'.serials # <<>> /\ currentComponent = Null

\* C7 as stated: highlightAtoms with serials while nothing is loaded
\* leaves the scene as it was, and the one event it emits is the log
\* event that says "no component".
C7_OnlyNoComponentLog ==
    [][HighlightsNoComponent =>
           /\ UNCHANGED <<reprs, compList, currentComponent>>
           /\ LogEventsOf(bridgeOut', consoleOut') =
                  <<[message |-> "Clearing selection",
                     data |-> [reason |-> "no component"]]>>]_vars

\* C7 amended: it leaves the scene as it was, creates no overlay, and emits
\* exactly two log events: "highlightAtoms called" with the serials, then
\* "Clearing selection" with the reason "no component".
C7_CalledThenNoComponentLog ==
    [][HighlightsNoComponent =>
           /\ UNCHANGED <<reprs, compList, currentComponent>>
           /\ selectionRepresentation' = Null
           /\ LogEventsOf(bridgeOut', consoleOut') =
                  <<[message |-> "highlightAtoms called",
                     data |-> [serials |-> last'.serials]],
                    [message |-> "Clearing selection",
                     data |-> [reason |-> "no component"]]>>]_vars

C7_Witness ==
    /\ NoComponentHighlight
    /\ Len(LogEvents) = 2
    /\ Overlays = {}


\* among rs, component c has exactly one representation per residue of
\* the list its load computed (log), each selecting that residue, in its
\* color
FullRepresentationSet(rs, log, c) ==
    LET resnames == log[c].resnames
        colorScheme == generateColorScheme(resnames)
        mine == {r \in rs : r.color # HighlightColor /\ r.comp = c}
    IN  /\ Cardinality(mine) = Len(resnames)
        /\ Rendered(mine) =
               {[comp |-> c, type |-> BallStick,
                 sele |-> <<"[">> \o resnames[i] \o <<"]">>,
                 color |-> colorScheme[resnames[i]],
                 radiusScale |-> "default"] : i \in 1..Len(resnames)}

\* nothing of load n is in the stage cs with representations rs
NothingOfLoad(cs, rs, n) ==
    /\ n \notin cs
    /\ \A r \in rs : r.comp # n

\* C8 as stated: after a load is rejected the system is Empty (no current
\* component, nothing of the rejected structure in the stage), and a
\* current component always has its full per-residue representation set.
C8_RejectedLoadLeavesEmpty ==
    /\ last.op = "rejected" =>
           /\ currentComponent = Null
           /\ NothingOfLoad(compList, reprs, last.load)
    /\ currentComponent # Null =>
           FullRepresentationSet(reprs, loadLog, currentComponent)

\* C8 amended: a rejection leaves the current component, the stage and the
\* representations as they were, with nothing of the rejected structure in
\* the stage, so the system is Empty afterwards when it was Empty before;
\* a current component always has its full per-residue representation set.
C8_RejectedLoadChangesNothing ==
    [][/\ last'.op = "rejected" =>
              /\ UNCHANGED <<currentComponent, compList, reprs,
                             selectionRepresentation>>
              /\ NothingOfLoad(compList', reprs', last'.load)
       /\ currentComponent' # Null =>
              FullRepresentationSet(reprs', loadLog', currentComponent')]_vars

C8_Witness ==
    /\ last.op = "rejected"
    /\ currentComponent = Null
    /\ compList = {}
    /\ \E i \in 1..Len(loadLog) : loadLog[i].status = "resolved"

\* what console.log receives from sendLog
ConsoleLog(message, data) ==
    [stream |-> "log", prefix |-> "[JS Log]", message |-> message,
     data |-> data]

\* the number of view-to-host events the last handler produced
EventsProduced ==
    CASE last.op = "load" -> 1
      [] last.op = "highlight" -> 2
      [] last.op = "click" /\ last.pick # NoAtom -> 1
      [] OTHER -> 0

\* the log lines the last handler's log events make on the console
ExpectedConsoleLog ==
    CASE last.op = "load" ->
             <<ConsoleLog("Detected residue names",
                   [resnames |-> loadLog[last.load].resnames,
                    colorScheme |->
                        generateColorScheme(loadLog[last.load].resnames)])>>
      [] last.op = "highlight" ->
             <<ConsoleLog("highlightAtoms called",
                          [serials |-> last.serials]),
               IF last.serials # <<>> /\ currentComponent # Null
               THEN ConsoleLog("Creating selection representation",
                        [selectionString |->
                             (CHOOSE r \in reprs :
                                  r.id = selectionRepresentation).sele])
               ELSE ConsoleLog("Clearing selection",
                        [reason |-> IF last.serials = <<>>
                                    THEN "empty serials"
                                    ELSE "no component"])>>
      [] OTHER -> <<>>

ConsoleLogLines == SelectSeq(consoleOut, LAMBDA e : e.stream = "log")

PickEvent(atom) ==
    JSONstringify([type |-> "pick", chain |-> atom.chainname,
                   resno |-> atom.resno, resname |-> atom.resname,
                   atomname |-> atom.atomname, serial |-> atom.serial])

\* C10: a click that resolves to no atom emits nothing; a click that
\* resolves to an atom, with a bridge attached, emits exactly one pick
\* event with the atom's chain, resno, resname, atomname and its serial as
\* it is; a click changes neither the current component nor the overlay.
C10_ClickRelaysPick ==
    [][last'.op = "click" =>
           /\ last'.pick = NoAtom => (bridgeOut' = <<>> /\ consoleOut' = <<>>)
           /\ (last'.pick # NoAtom /\ bridge)
                  => bridgeOut' = <<PickEvent(last'.pick)>>
           /\ UNCHANGED <<currentComponent, selectionRepresentation, reprs,
                          compList>>]_vars

C10_Witness ==
    /\ last.op = "click"
    /\ last.pick # NoAtom
    /\ bridge
    /\ bridgeOut = <<PickEvent(last.pick)>>
    /\ last.pick.serial = 11

\* ---------------------------------------------------------------- C11

Messages(events) == [i \in 1..Len(events) |-> events[i].message]

\* C12: when a removal call of the cleanup throws, loadPDBFromText still
\* sets currentComponent to null, emits its log event and hands the new
\* load to the renderer, and highlightAtoms still clears its reference and
\* goes on as it does after a cleanup that succeeded: with serials it
\* creates a new overlay on the current component, selecting the atoms of
\* the serials, and refers to it; without serials it leaves the reference
\* null and creates nothing.
C12_ThrownCleanupIsSwallowed ==
    [][/\ (last'.op = "load" /\ last'.thrown # "none") =>
              /\ currentComponent' = Null
              /\ loadCount' = loadCount + 1
              /\ \E p \in pending' \ pending : p.load = loadCount'
              /\ Messages(LogEventsOf(bridgeOut', consoleOut')) =
                     <<"Detected residue names">>
       /\ (last'.op = "highlight" /\ last'.thrown # "none") =>
              IF Len(last'.serials) > 0
              THEN /\ selectionRepresentation' # Null
                   /\ \E r \in reprs' \ reprs :
                          /\ reprs' = reprs \cup {r}
                          /\ r.id = selectionRepresentation'
                          /\ r.comp = currentComponent'
                          /\ r.color = HighlightColor
                          /\ SelectedAtomIndices(r.sele) =
                                 IndicesOf(last'.serials)
                   /\ Messages(LogEventsOf(bridgeOut', consoleOut')) =
                          <<"highlightAtoms called",
                            "Creating selection representation">>
              ELSE /\ selectionRepresentation' = Null
                   /\ reprs' = reprs
                   /\ Messages(LogEventsOf(bridgeOut', consoleOut')) =
                          <<"highlightAtoms called", "Clearing selection">>
      ]_vars

\* removeAllRepresentations or remove threw in the second load, which has
\* resolved since: its component is current and the first is still there
C12_Witness ==
    /\ throws = 1
    /\ last.op = "resolved"
    /\ last.load = 2
    /\ currentComponent = 2
    /\ compList = {1, 2}

\* ---------------------------------------------------------------- C13

\* the residue name a line of a text contributes, by its construction
Contribution(d) ==
    IF d.record \in {ATOM, HETATM} /\ ~d.short /\ d.resname # <<>>
    THEN {d.resname}
    ELSE {}

Reverse(seq) == [i \in 1..Len(seq) |-> seq[Len(seq) + 1 - i]]

HslFields(color) == Split(SubSeq(color, 5, Len(color) - 1), ",")

\* the hue written in such a color, as a fraction
HueOf(color) ==
    LET parts == Split(HslFields(color)[1], "/")
    IN  [num |-> FromDecimal(parts[1]),
         den |-> IF Len(parts) = 2 THEN FromDecimal(parts[2]) ELSE 1]

\* the color is an hsl color of the hue num/count, 70% and 50%
IsHslOfHue(color, num, count) ==
    /\ StartsWith(color, <<"h", "s", "l", "(">>)
    /\ color[Len(color)] = ")"
    /\ Len(HslFields(color)) = 3
    /\ HueOf(color).num * count = num * HueOf(color).den
    /\ HslFields(color)[2] = <<" ", "7", "0", "%">>
    /\ HslFields(color)[3] = <<" ", "5", "0", "%">>

\* C14 as stated: for the sorted list of N residue names the parser
\* returns, the color map gives the name at index i the hsl color of hue
\* i * 360 / N, saturation 70% and lightness 50%, and gives "*" white;
\* for N = 0 the map has the wildcard key alone.
C14_HuesEvenlySpaced ==
    parsed # <<>> =>
        LET resnames == parsed[1].resnames
            colorScheme == parsed[1].colorScheme
            count == Len(resnames)
        IN  /\ \A i \in 1..count :
                   IsHslOfHue(colorScheme[resnames[i]], (i - 1) * 360, count)
            /\ colorScheme[Star] = White
            /\ count = 0 => DOMAIN colorScheme = {Star}

\* ---------------------------------------------------------------- C15

\* C15 as stated: no name the parser returns is the wildcard: every
\* name keeps the hsl color computed for its index, and the color map has
\* one key more than the list has names.
C15_WildcardNeverCollides ==
    parsed # <<>> =>
        LET resnames == parsed[1].resnames
            colorScheme == parsed[1].colorScheme
            count == Len(resnames)
        IN  /\ \A i \in 1..count :
                   colorScheme[resnames[i]] = Hsl(i - 1, count)
            /\ Cardinality(DOMAIN colorScheme) = count + 1

\* ---------------------------------------------------------------- C16

\* the per-residue representations among rs
BaseOf(rs) == {r \in rs : r.color # HighlightColor}

\* C16: a highlightAtoms call leaves the current component reference, the
\* components in the stage, the loads in flight, the camera and the set of
\* per-residue representations as they were; it changes at most the
\* overlay and the overlay reference.
C16_HighlightLeavesSceneController ==
    [][last'.op = "highlight" =>
           /\ currentComponent' = currentComponent
           /\ BaseOf(reprs') = BaseOf(reprs)
           /\ compList' = compList
           /\ pending' = pending
           /\ loadCount' = loadCount
           /\ view' = view]_vars

\* highlightAtoms has created an overlay next to the two per-residue
\* representations of the current component
C16_Witness ==
    /\ last.op = "highlight"
    /\ last.serials = <<1, 5, 10>>
    /\ currentComponent # Null
    /\ Cardinality(BaseOf(reprs)) = 2
    /\ \A r \in BaseOf(reprs) : r.comp = currentComponent
    /\ selectionRepresentation = 3
    /\ Cardinality(Overlays) = 1

\* ---------------------------------------------------------------- C17

C18_NoOverlayAfterLoad ==
    (unreplayed /\ last.op = "resolved") => Overlays = {}

\* C18 amended: such a call changes no representation and leaves the
\* overlay reference null; the completion of a load creates no overlay
\* and leaves the reference as it was; so until the next highlightAtoms
\* call the reference is null and the current component has no overlay.
\* (An overlay that was in the scene before the call, on a component that
\* is no longer current, is still there.)
C18_HighlightIsNotReplayed ==
    [][/\ unreplayed' =>
              /\ selectionRepresentation' = Null
              /\ OverlaysOn(reprs', currentComponent') = {}
       /\ (unreplayed' /\ last'.op = "highlight") => reprs' = reprs
       /\ last'.op = "resolved" =>
              /\ reprs' \ BaseOf(reprs') = reprs \ BaseOf(reprs)
              /\ selectionRepresentation' = selectionRepresentation
      ]_vars

\* the load that was in flight at such a call has resolved, and no
\* highlightAtoms call was made since
C18_Witness ==
    /\ unreplayed
    /\ last.op = "resolved"
    /\ currentComponent = last.load
    /\ BaseOf(reprs) # {}

\* ---------------------------------------------------------------- C19

\* C19: the rejection of a load leaves the current component reference,
\* the components in the stage, the representations, the overlay
\* reference and the camera exactly as they were, also when the rejected
\* load is older than a load that has resolved already.
C19_RejectionChangesNoControllerState ==
    [][last'.op = "rejected" =>
           /\ currentComponent' = currentComponent
           /\ selectionRepresentation' = selectionRepresentation
           /\ reprs' = reprs
           /\ compList' = compList
           /\ view' = view
           /\ loadCount' = loadCount]_vars

\* an older load was rejected after a newer one had resolved and its
\* component had been given an overlay
C19_Witness ==
    /\ last.op = "rejected"
    /\ last.load = 1
    /\ Len(loadLog) = 2
    /\ loadLog[2].status = "resolved"
    /\ currentComponent = 2
    /\ selectionRepresentation # Null
    /\ Cardinality(OverlaysOn(reprs, 2)) = 1

====
